---- MODULE Spec2Model ----
(***************************************************************************)
(* MicroTest (src/lib/test-framework.js): the suite tree built by the      *)
(* registration API (describe / it / test / skip / only / hooks) and the   *)
(* asynchronous runner (run / runSuite / runTest / withTimeout).           *)
(*                                                                         *)
(* A step of the model is a piece of JavaScript that runs without being    *)
(* interrupted: one registration call, or the runner's code between two    *)
(* awaits.  User callables (suite bodies, hooks, test bodies) are inputs:  *)
(* what a callable does is drawn when it is called.                        *)
(***************************************************************************)
EXTENDS Integers, Sequences, FiniteSets, TLC

(* ---------------------------------------------------------------- bounds *)
\* The size of the tree: its suites, tests and hooks.  Registration calls are
\* made while the tree is under it.
MaxSize == 5

(* ------------------------------------------------------------- constants *)
DefaultTimeout == 5000

Null == 0

VARIABLES
  suites,        \* this.suites: the root suites (references into heap)
  currentSuite,  \* this.currentSuite: a reference, or Null
  heap,          \* the suite objects created by describe, by reference
  stack,         \* the describe calls in progress, innermost last
  lastCall,      \* the last registration call (it for test, skip and only,
                 \* which call it) and whether it raised
  results,       \* this.results
  status,        \* run(): "idle", "running", "resolved" or "rejected"
  runIdx,        \* run(): position of the loop over this.suites
  rstack,        \* the runSuite calls in progress, innermost last
  tf,            \* the runTest call in progress, or NoTest
  pending,       \* what the runner is suspended on: "none", "hook", "race"
  log,           \* every invocation of a user callable by the runner
  returned,      \* what each run() call resolved with: this.results, as it
                 \* was at that moment
  behaviour,     \* what the callables invoked so far did (kept only where
                 \* callables behave the same on every invocation)
  late,          \* the test bodies that lost the race to their timer and
                 \* have not settled yet
  timers,        \* the timers that lost the race to their body and have not
                 \* fired yet
  actual,        \* Expect: this.actual
  isNot,         \* Expect: this.isNot
  expected,      \* the argument the matchers are called with
  verdicts       \* what the last matcher called did, plain and negated

vars == <<suites, currentSuite, heap, stack, lastCall, results, status,
          runIdx, rstack, tf, pending, log, returned, behaviour, late,
          timers, actual, isNot, expected, verdicts>>

regVars == <<suites, currentSuite, heap, stack, lastCall>>
expectVars == <<actual, isNot, expected, verdicts>>
runVars == <<results, status, runIdx, rstack, tf, pending, log, returned, behaviour,
             late, timers, expectVars>>

(* ------------------------------------------------------ the suite tree -- *)
HookKinds == {"beforeAll", "afterAll", "beforeEach", "afterEach"}

\* options.timeout: 0 stands for an absent (or falsy) option.
Options == [skip : BOOLEAN, only : BOOLEAN, timeout : {0}]

NoOptions == [skip |-> FALSE, only |-> FALSE, timeout |-> 0]

\* const suite = { name, tests: [], beforeEach: [], ... }
NewSuite(name) ==
  [name |-> name, tests |-> <<>>, beforeEach |-> <<>>, afterEach |-> <<>>,
   beforeAll |-> <<>>, afterAll |-> <<>>, nested |-> <<>>]

\* { name, fn, skip: options.skip || false, only: options.only || false,
\*   timeout: options.timeout || 5000 }; fn is drawn when it is called.
NewTest(name, options) ==
  [name |-> name, skip |-> options.skip, only |-> options.only,
   timeout |-> IF options.timeout # 0 THEN options.timeout ELSE DefaultTimeout]

RECURSIVE SumLen(_, _)
SumLen(h, f) == IF h = <<>> THEN 0 ELSE Len(f[Head(h)]) + SumLen(Tail(h), f)

NumTests ==
  SumLen([k \in 1..Len(heap) |-> k], [k \in 1..Len(heap) |-> heap[k].tests])

NumHooks ==
  LET ids == [k \in 1..Len(heap) |-> k] IN
    SumLen(ids, [k \in 1..Len(heap) |-> heap[k].beforeAll])
    + SumLen(ids, [k \in 1..Len(heap) |-> heap[k].afterAll])
    + SumLen(ids, [k \in 1..Len(heap) |-> heap[k].beforeEach])
    + SumLen(ids, [k \in 1..Len(heap) |-> heap[k].afterEach])

Size == Len(heap) + NumTests + NumHooks

Registering == status = "idle"

(* ------------------------------------------------------------- describe *)
\* describe(name, fn), up to the call of fn: the suite object is created,
\* previousSuite is saved and the suite becomes current.
DescribeEnter ==
  /\ Registering
  /\ LET id == Len(heap) + 1 IN
       /\ heap' = Append(heap, NewSuite(id))
       /\ stack' = Append(stack, [suite |-> id, previousSuite |-> currentSuite])
       /\ currentSuite' = id
  /\ lastCall' = [op |-> "describe:enter", threw |-> FALSE]
  /\ UNCHANGED <<suites, runVars>>

\* if (previousSuite) previousSuite.nested.push(suite) else this.suites.push(suite)
attach(h, prev, id) ==
  IF prev # Null THEN [h EXCEPT ![prev].nested = Append(@, id)] ELSE h

attachRoot(roots, prev, id) ==
  IF prev # Null THEN roots ELSE Append(roots, id)

\* A variant of restore without the finally block: the context is restored
\* only when fn() returns.
restoreNoFinally(frame, cur, raised) == IF raised THEN cur ELSE frame.previousSuite

\* finally { this.currentSuite = previousSuite }

restore(frame, cur, raised) == frame.previousSuite

\* fn() returned: the suite is attached, the finally block restores.
DescribeReturn ==
  /\ Registering
  /\ stack # <<>>
  /\ LET frame == stack[Len(stack)] IN
       /\ heap' = attach(heap, frame.previousSuite, frame.suite)
       /\ suites' = attachRoot(suites, frame.previousSuite, frame.suite)
       /\ currentSuite' = restore(frame, currentSuite, FALSE)
  /\ stack' = SubSeq(stack, 1, Len(stack) - 1)
  /\ lastCall' = [op |-> "describe", threw |-> FALSE]
  /\ UNCHANGED runVars

\* A describe that attaches the suite in its finally block, raised or not.
discardAttached(h, roots, cur, id) == attach(h, cur, id)

\* The suite objects left when describe raises: suite was held by the local
\* const of the call alone, so it and the suites created inside its body
\* (the later ones) are gone unless something still refers to suite.
discard(h, roots, cur, id) ==
  IF \/ cur >= id
     \/ \E k \in 1..Len(roots) : roots[k] >= id
     \/ \E j \in 1..(id - 1) : \E k \in 1..Len(h[j].nested) : h[j].nested[k] >= id
    THEN h
    ELSE SubSeq(h, 1, id - 1)

\* fn() raised: nothing is attached, the finally block restores and the
\* exception leaves describe (the caller may catch it or raise in turn).
DescribeRaise ==
  /\ Registering
  /\ stack # <<>>
  /\ LET frame == stack[Len(stack)]
         cur == restore(frame, currentSuite, TRUE)
     IN /\ currentSuite' = cur
        /\ heap' = discard(heap, suites, cur, frame.suite)
  /\ stack' = SubSeq(stack, 1, Len(stack) - 1)
  /\ lastCall' = [op |-> "describe", threw |-> TRUE]
  /\ UNCHANGED <<suites, runVars>>

(* ------------------------------------------------- it / test / skip / only *)
\* this.currentSuite.tests.push({...}); a test is named by its place.
itPush(h, cur, options) ==
  [h EXCEPT ![cur].tests = Append(@, NewTest(<<cur, Len(@) + 1>>, options))]

\* A variant of itCall that ignores a test outside a suite, as the hooks do.
itCallSilent(h, cur, options) ==
  IF cur = Null THEN [heap |-> h, threw |-> FALSE]
  ELSE [heap |-> itPush(h, cur, options), threw |-> FALSE]

\* if (!this.currentSuite) { throw new Error("Tests must be defined inside a
\* describe block") }; this.currentSuite.tests.push({...})
itCall(h, cur, options) ==
  IF cur = Null THEN [heap |-> h, threw |-> TRUE]
  ELSE [heap |-> itPush(h, cur, options), threw |-> FALSE]

it(options) ==
  /\ Registering
  /\ LET r == itCall(heap, currentSuite, options) IN
       /\ heap' = r.heap
       /\ lastCall' = [op |-> "it", threw |-> r.threw]
  /\ UNCHANGED <<suites, currentSuite, stack, runVars>>

It == \E options \in Options : it(options)

\* test(name, fn, options) { this.it(name, fn, options) }
Test == \E options \in Options : it(options)

\* skip(name, fn) { this.it(name, fn, { skip: true }) }
Skip == it([NoOptions EXCEPT !.skip = TRUE])

\* only(name, fn) { this.it(name, fn, { only: true }) }
Only == it([NoOptions EXCEPT !.only = TRUE])

(* ------------------------------------------------------------------ hooks *)
\* this.currentSuite.<kind>.push(fn); a hook is named by its place.
hookPush(h, cur, kind) == [h EXCEPT ![cur][kind] = Append(@, Len(@) + 1)]

\* A variant of hookCall that raises outside a suite, as it() does.
hookCallStrict(h, cur, kind) ==
  IF cur = Null THEN [heap |-> h, threw |-> TRUE]
  ELSE [heap |-> hookPush(h, cur, kind), threw |-> FALSE]

\* if (this.currentSuite) { this.currentSuite.<kind>.push(fn) }
hookCall(h, cur, kind) ==
  IF cur # Null THEN [heap |-> hookPush(h, cur, kind), threw |-> FALSE]
  ELSE [heap |-> h, threw |-> FALSE]

hook(kind) ==
  /\ Registering
  /\ LET r == hookCall(heap, currentSuite, kind) IN
       /\ heap' = r.heap
       /\ lastCall' = [op |-> kind, threw |-> r.threw]
  /\ UNCHANGED <<suites, currentSuite, stack, runVars>>

BeforeEach == hook("beforeEach")
AfterEach == hook("afterEach")
BeforeAll == hook("beforeAll")
AfterAll == hook("afterAll")

\* The registration calls; those that can add to the tree are made while its
\* size is under MaxSize.
Register ==
  \/ DescribeReturn \/ DescribeRaise
  \/ /\ Registering
     /\ Size < MaxSize
     /\ \/ DescribeEnter
        \/ It \/ Test \/ Skip \/ Only
        \/ BeforeEach \/ AfterEach \/ BeforeAll \/ AfterAll

(* ------------------------------------------------------------------- init *)
NoResult == [name |-> <<>>, passed |-> FALSE, error |-> "null"]
NoBody == [sync |-> 0, wait |-> 0]
NoTest == [pc |-> "none", i |-> 0, result |-> NoResult, crashed |-> FALSE, body |-> NoBody]

\* A JavaScript value: its kind (t), the payload of a number, string or
\* function (v), the constructor, identity (ref) and own enumerable
\* properties, in insertion order, of an object or array.
Val(t, v) == [t |-> t, v |-> v, ctor |-> "", ref |-> 0, props |-> <<>>]

Undefined == Val("undefined", "")

NoVerdicts == [matcher |-> "none", property |-> "", plain |-> "none", negated |-> "none"]

\* No expectation has been made.
NoExpect ==
  /\ actual = Undefined
  /\ isNot = FALSE
  /\ expected = Undefined
  /\ verdicts = NoVerdicts

\* const microTest = new MicroTest()
Constructed ==
  /\ suites = <<>>
  /\ currentSuite = Null
  /\ heap = <<>>
  /\ stack = <<>>
  /\ lastCall = [op |-> "constructor", threw |-> FALSE]
  /\ results = [passed |-> 0, failed |-> 0, skipped |-> 0, total |-> 0, suites |-> <<>>]
  /\ status = "idle"
  /\ runIdx = 0
  /\ rstack = <<>>
  /\ tf = NoTest
  /\ pending = "none"
  /\ log = <<>>
  /\ returned = <<>>
  /\ behaviour = <<>>
  /\ late = {}
  /\ timers = {}

Init == Constructed /\ NoExpect

(* ------------------------------------------------------- user callables -- *)
\* What a hook does when it is called and awaited.
HookOutcomes == {"return", "throwError", "throwNull"}

\* What a settled test body did.
BodyEnds == {"return", "throwError", "throwNull"}

\* The value a callable threw (or rejected with).
thrownBy(outcome) == IF outcome = "throwNull" THEN "null" ELSE "Error"

\* A test body, in milliseconds: its synchronous part (before test.fn()
\* returns) and the time its returned value then takes to settle (0: not a
\* pending promise).
Bodies == [sync : {0, 6000}, wait : {0, 6000}]

\* error.message, read by every catch block: a TypeError when the caught
\* value is null (or undefined).
readMessageThrows(error) == error = "null"

(* -------------------------------------------------------------------- run *)
(* The runner is one asynchronous call chain, run -> runSuite -> runTest.  *)
(* Its code runs without interruption from one await to the next, so a     *)
(* step of the run is: what the runner awaits settles, and the runner goes *)
(* on until it awaits again (advance).  The operators below work on r, the *)
(* runner's state: the run variables as one record.                        *)
Now ==
  [results |-> results, status |-> status, runIdx |-> runIdx, rstack |-> rstack,
   tf |-> tf, pending |-> pending, log |-> log, returned |-> returned,
   behaviour |-> behaviour, late |-> late, timers |-> timers]

Running == status = "running"

top == rstack[Len(rstack)]

Top(r) == r.rstack[Len(r.rstack)]

SetTop(r, frame) == [r EXCEPT !.rstack[Len(r.rstack)] = frame]

\* const suiteResults = { name: suite.name, passed: 0, failed: 0, skipped: 0, tests: [] }
\* A runSuite that goes straight to the child suites.
NewFrameSkipsTests(id) ==
  [suite |-> id, pc |-> "nested", i |-> 1,
   suiteResults |-> [name |-> heap[id].name, passed |-> 0, failed |-> 0,
                     skipped |-> 0, tests |-> <<>>]]

NewFrame(id) ==
  [suite |-> id, pc |-> "beforeAll", i |-> 1,
   suiteResults |-> [name |-> heap[id].name, passed |-> 0, failed |-> 0,
                     skipped |-> 0, tests |-> <<>>]]

\* An invocation of a user callable: hook i of a list of the suite (for test
\* t, or 0), or the body of test t.
Call(r, kind, id, i, t) ==
  [r EXCEPT !.log = Append(@, [kind |-> kind, suite |-> id, i |-> i, test |-> t])]

\* A runner that takes the hooks from the outermost suite being run.
callHookOutermost(r, kind, i, t) ==
  [Call(r, kind, r.rstack[1].suite, i, t) EXCEPT !.pending = "hook"]

\* await hook(): the hook is called and the runner is suspended on it.
callHook(r, kind, i, t) ==
  [Call(r, kind, Top(r).suite, i, t) EXCEPT !.pending = "hook"]

\* An exception leaves runTest or runSuite: no frame catches it, run() rejects.
reject(r) == [r EXCEPT !.status = "rejected", !.pending = "none"]

(* -- runSuite: beforeAll and afterAll *)
\* for (const hook of suite.<kind>) { try { await hook() }
\*   catch (error) { console.error(..., error.message) } }
allHookSettled(r, outcome) ==
  IF outcome # "return" /\ readMessageThrows(thrownBy(outcome))
    THEN reject(r)
    ELSE [SetTop(r, [Top(r) EXCEPT !.i = @ + 1]) EXCEPT !.pending = "none"]

(* -- runSuite: the tests *)
\* const hasOnly = suite.tests.some((test) => test.only)
RECURSIVE some(_)
some(tests) == IF tests = <<>> THEN FALSE ELSE Head(tests).only \/ some(Tail(tests))

\* A variant of hasOnly that decides focus mode for the whole tree.
hasOnlyAnywhere(id) == \E k \in 1..Len(heap) : some(heap[k].tests)

hasOnly(id) == some(heap[id].tests)

\* A variant of visit in which only takes precedence over skip.
visitOnlyFirst(only, test) ==
  IF only /\ ~test.only THEN "continue"
  ELSE IF test.skip /\ ~test.only THEN "skipped"
  ELSE "run"

\* if (hasOnly && !test.only) continue
\* if (test.skip) { ...; continue }
\* const testResult = await this.runTest(test, suite, depth + 1)
visit(only, test) ==
  IF only /\ ~test.only THEN "continue"
  ELSE IF test.skip THEN "skipped"
  ELSE "run"

\* A variant of countSkipped that forgets this.results.total++.
countSkippedNoTotal(c) == [c EXCEPT !.skipped = @ + 1]

\* this.results.skipped++; this.results.total++
countSkipped(c) == [c EXCEPT !.skipped = @ + 1, !.total = @ + 1]

\* if (test.skip) { suiteResults.skipped++; ...; continue }
recordSkipped(r) ==
  [SetTop(r, [Top(r) EXCEPT !.i = @ + 1, !.suiteResults.skipped = @ + 1])
     EXCEPT !.results = countSkipped(@)]

\* runTest(test, suite, depth): const result = { name, passed: false, error: null }
runTestCall(r, test) ==
  [r EXCEPT !.tf = [NoTest EXCEPT !.pc = "beforeEach", !.i = 1,
                                  !.result = [NoResult EXCEPT !.name = test.name]]]

(* -- runTest *)
\* catch (error) { result.error = error; console.log(error.message); ... }
\* and then the finally block: the afterEach hooks.  When reading
\* error.message raises, that TypeError is pending while the finally block
\* runs.
catch(frame, error) ==
  [frame EXCEPT !.result.error = error, !.crashed = readMessageThrows(error),
                !.pc = "afterEach", !.i = 1, !.body = NoBody]

\* for (const hook of suite.beforeEach) { await hook() }, inside the try block
beforeEachSettled(r, outcome) ==
  [r EXCEPT !.pending = "none",
            !.tf = IF outcome = "return" THEN [@ EXCEPT !.i = @ + 1]
                   ELSE catch(@, thrownBy(outcome))]

\* await this.withTimeout(test.fn(), test.timeout): test.fn() is called and
\* runs its synchronous part; only then is the timer set.
callBody(r) ==
  [Call(r, "body", Top(r).suite, Top(r).i, Top(r).i)
     EXCEPT !.tf.pc = "race", !.pending = "race"]

\* A variant of bodyWins whose timer runs from the call of test.fn().
bodyWinsFromCall(body, timeout) == body.sync + body.wait < timeout

\* Promise.race([promise, new Promise((_, reject) => setTimeout(..., timeout))]):
\* the timer runs from the return of test.fn(); the body's value wins when it
\* settles before the timer fires.
bodyWins(body, timeout) == body.wait < timeout

\* A runner that does not wait for the body: the test passes at once and the
\* body goes on in the background.
raceSettledUnawaited(r, timeout, end) ==
  [r EXCEPT !.pending = "none",
            !.late = @ \cup {[suite |-> Top(r).suite, test |-> Top(r).i]},
            !.tf = [@ EXCEPT !.result.passed = TRUE, !.pc = "afterEach",
                             !.i = 1, !.body = NoBody]]

\* result.passed = true, or the catch block with what the race rejected with.
\* Nothing stops the body when the timer wins: it goes on in the background;
\* and nothing clears the timer when the body wins: it fires later.
raceSettled(r, timeout, end) ==
  [r EXCEPT !.pending = "none",
            !.late = IF bodyWins(r.tf.body, timeout) THEN @
                     ELSE @ \cup {[suite |-> Top(r).suite, test |-> Top(r).i]},
            !.timers = IF bodyWins(r.tf.body, timeout)
                         THEN @ \cup {[suite |-> Top(r).suite, test |-> Top(r).i]}
                         ELSE @,
            !.tf = IF bodyWins(@.body, timeout)
                     THEN IF end = "return"
                            THEN [@ EXCEPT !.result.passed = TRUE, !.pc = "afterEach",
                                           !.i = 1, !.body = NoBody]
                            ELSE catch(@, thrownBy(end))
                     ELSE catch(@, "Timeout")]

\* finally { for (const hook of suite.afterEach) { try { await hook() }
\*           catch (error) { console.error(..., error.message) } } }
afterEachSettled(r, outcome) ==
  IF outcome # "return" /\ readMessageThrows(thrownBy(outcome))
    THEN reject(r)
    ELSE [r EXCEPT !.pending = "none", !.tf.i = @ + 1]

\* if (testResult.passed) { ...; this.results.passed++ }
\* else { ...; this.results.failed++ }; this.results.total++
countTest(c, passed) ==
  IF passed THEN [c EXCEPT !.passed = @ + 1, !.total = @ + 1]
  ELSE [c EXCEPT !.failed = @ + 1, !.total = @ + 1]

\* suiteResults.tests.push(testResult); suiteResults.passed++ or failed++
recordTest(frame, result) ==
  IF result.passed
    THEN [frame EXCEPT !.i = @ + 1, !.suiteResults.passed = @ + 1,
                       !.suiteResults.tests = Append(@, result)]
    ELSE [frame EXCEPT !.i = @ + 1, !.suiteResults.failed = @ + 1,
                       !.suiteResults.tests = Append(@, result)]

\* return result, and runSuite records it; or the pending TypeError leaves
\* runTest once the finally block is done.
runTestReturn(r) ==
  IF r.tf.crashed
    THEN reject(r)
    ELSE [SetTop(r, recordTest(Top(r), r.tf.result))
            EXCEPT !.results = countTest(@, r.tf.result.passed), !.tf = NoTest]

(* -- runSuite: the end *)
\* A runSuite that puts its result at the front of the report's list.
runSuiteReturnFront(r) ==
  LET rest == SubSeq(r.rstack, 1, Len(r.rstack) - 1)
      pushed == [r EXCEPT !.results.suites = <<Top(r).suiteResults>> \o @]
  IN IF rest = <<>>
       THEN [pushed EXCEPT !.rstack = rest, !.runIdx = @ + 1]
       ELSE [pushed EXCEPT !.rstack = [rest EXCEPT ![Len(rest)].i = @ + 1]]

\* this.results.suites.push(suiteResults), and runSuite returns to its caller:
\* the loop over the nested suites of the parent, or the loop of run().
runSuiteReturn(r) ==
  LET rest == SubSeq(r.rstack, 1, Len(r.rstack) - 1)
      pushed == [r EXCEPT !.results.suites = Append(@, Top(r).suiteResults)]
  IN IF rest = <<>>
       THEN [pushed EXCEPT !.rstack = rest, !.runIdx = @ + 1]
       ELSE [pushed EXCEPT !.rstack = [rest EXCEPT ![Len(rest)].i = @ + 1]]

\* The counts of a report, and the number of its suite results.
report(res) ==
  [passed |-> res.passed, failed |-> res.failed, skipped |-> res.skipped,
   total |-> res.total, suites |-> Len(res.suites)]

(* -- the runner, from one await to the next *)
\* The next thing the runner does when it is not suspended.
next(r) ==
  IF r.tf.pc = "beforeEach" THEN
    IF r.tf.i <= Len(heap[Top(r).suite].beforeEach)
      THEN callHook(r, "beforeEach", r.tf.i, Top(r).i)
      ELSE callBody(r)
  ELSE IF r.tf.pc = "afterEach" THEN
    IF r.tf.i <= Len(heap[Top(r).suite].afterEach)
      THEN callHook(r, "afterEach", r.tf.i, Top(r).i)
      ELSE runTestReturn(r)
  ELSE IF r.rstack = <<>> THEN
    \* run(): for (const suite of this.suites) { await this.runSuite(suite) }
    IF r.runIdx <= Len(suites)
      THEN [r EXCEPT !.rstack = <<NewFrame(suites[r.runIdx])>>]
      \* return this.results
      ELSE [r EXCEPT !.status = "resolved", !.returned = Append(@, report(r.results))]
  ELSE
    LET f == Top(r)
        suite == heap[f.suite]
    IN CASE f.pc = "beforeAll" ->
              IF f.i <= Len(suite.beforeAll)
                THEN callHook(r, "beforeAll", f.i, 0)
                ELSE SetTop(r, [f EXCEPT !.pc = "tests", !.i = 1])
         [] f.pc = "tests" ->
              IF f.i <= Len(suite.tests)
                THEN CASE visit(hasOnly(f.suite), suite.tests[f.i]) = "continue" ->
                            SetTop(r, [f EXCEPT !.i = @ + 1])
                       [] visit(hasOnly(f.suite), suite.tests[f.i]) = "skipped" ->
                            recordSkipped(r)
                       [] OTHER -> runTestCall(r, suite.tests[f.i])
                ELSE SetTop(r, [f EXCEPT !.pc = "nested", !.i = 1])
         [] f.pc = "nested" ->
              \* for (const nested of suite.nested) { await this.runSuite(nested) }
              IF f.i <= Len(suite.nested)
                THEN [r EXCEPT !.rstack = Append(@, NewFrame(suite.nested[f.i]))]
                ELSE SetTop(r, [f EXCEPT !.pc = "afterAll", !.i = 1])
         [] OTHER ->
              IF f.i <= Len(suite.afterAll)
                THEN callHook(r, "afterAll", f.i, 0)
                ELSE runSuiteReturn(r)

RECURSIVE advance(_)
advance(r) ==
  IF r.status # "running" \/ r.pending # "none" THEN r ELSE advance(next(r))

\* The runner goes on to its next await (or to the end of the run); when it
\* stops on a test body, what that body does is drawn.
Becomes(n, body) ==
  /\ results' = n.results
  /\ status' = n.status
  /\ runIdx' = n.runIdx
  /\ rstack' = n.rstack
  /\ tf' = [n.tf EXCEPT !.body = body]
  /\ pending' = n.pending
  /\ log' = n.log
  /\ returned' = n.returned
  /\ behaviour' = n.behaviour
  /\ late' = n.late
  /\ timers' = n.timers
  /\ UNCHANGED expectVars

Go(r) ==
  \E n \in {advance(r)} :
    \E body \in IF n.pending = "race" THEN Bodies ELSE {NoBody} : Becomes(n, body)

\* run() is called once the registration calls have returned.
RunStart ==
  /\ status = "idle"
  /\ stack = <<>>
  /\ Go([Now EXCEPT !.status = "running", !.runIdx = 1])
  /\ lastCall' = [op |-> "run", threw |-> FALSE]
  /\ UNCHANGED <<suites, currentSuite, heap, stack>>

Suspended(on, pc, tpc) ==
  /\ Running /\ pending = on /\ rstack # <<>>
  /\ tf.pc = tpc
  /\ tpc = "none" => top.pc = pc

BeforeAllSettles ==
  /\ Suspended("hook", "beforeAll", "none")
  /\ \E outcome \in HookOutcomes : Go(allHookSettled(Now, outcome))
  /\ UNCHANGED regVars

AfterAllSettles ==
  /\ Suspended("hook", "afterAll", "none")
  /\ \E outcome \in HookOutcomes : Go(allHookSettled(Now, outcome))
  /\ UNCHANGED regVars

BeforeEachSettles ==
  /\ Suspended("hook", "tests", "beforeEach")
  /\ \E outcome \in HookOutcomes : Go(beforeEachSettled(Now, outcome))
  /\ UNCHANGED regVars

\* The body settles or the timer fires, whichever is first.
RaceSettles ==
  /\ Suspended("race", "tests", "race")
  /\ \E end \in BodyEnds :
       Go(raceSettled(Now, heap[top.suite].tests[top.i].timeout, end))
  /\ UNCHANGED regVars

AfterEachSettles ==
  /\ Suspended("hook", "tests", "afterEach")
  /\ \E outcome \in HookOutcomes : Go(afterEachSettled(Now, outcome))
  /\ UNCHANGED regVars

Run ==
  \/ RunStart
  \/ BeforeAllSettles \/ AfterAllSettles
  \/ BeforeEachSettles \/ RaceSettles \/ AfterEachSettles

Next == Register \/ Run

Spec == Init /\ [][Next]_vars

(* ------------------------------------------------------ run() called again *)
(* A second specification: run() may be called again once it has resolved, *)
(* on a small tree whose callables behave the same on every invocation:    *)
(* what a callable does is drawn at its first invocation and remembered.   *)
RerunSize == 3

MaxRuns == 2

\* The callable the runner has invoked last (the one it is suspended on).
callee(r) ==
  <<r.log[Len(r.log)].kind, r.log[Len(r.log)].suite, r.log[Len(r.log)].i>>

\* What the runner awaits settles: the catch and continue of the await it is
\* suspended on.
settled(r, end) ==
  IF r.pending = "race"
    THEN raceSettled(r, heap[Top(r).suite].tests[Top(r).i].timeout, end)
  ELSE IF r.tf.pc = "beforeEach" THEN beforeEachSettled(r, end)
  ELSE IF r.tf.pc = "afterEach" THEN afterEachSettled(r, end)
  ELSE allHookSettled(r, end)

remember(r, key, did) ==
  [r EXCEPT !.behaviour = IF key \in DOMAIN @ THEN @ ELSE @ @@ (key :> did)]

GoSame(r) ==
  \E n \in {advance(r)} :
    \E body \in IF n.pending # "race" THEN {NoBody}
                ELSE IF callee(n) \in DOMAIN n.behaviour
                  THEN {[sync |-> n.behaviour[callee(n)].sync,
                         wait |-> n.behaviour[callee(n)].wait]}
                ELSE Bodies : Becomes(n, body)

\* run(): for (const suite of this.suites) ...; this.results is the object
\* the constructor made, and run() does not reset it.
RunSame ==
  /\ status = "idle" \/ (status = "resolved" /\ Len(returned) < MaxRuns)
  /\ stack = <<>>
  /\ GoSame([Now EXCEPT !.status = "running", !.runIdx = 1])
  /\ lastCall' = [op |-> "run", threw |-> FALSE]
  /\ UNCHANGED <<suites, currentSuite, heap, stack>>

SettleSame ==
  /\ Running /\ pending # "none"
  /\ \E end \in BodyEnds :
       /\ callee(Now) \in DOMAIN behaviour => behaviour[callee(Now)].end = end
       /\ GoSame(remember(settled(Now, end), callee(Now),
                         [sync |-> tf.body.sync, wait |-> tf.body.wait, end |-> end]))
  /\ UNCHANGED regVars

RegisterSmall == Register /\ Size' <= RerunSize

NextRerun == RegisterSmall \/ RunSame \/ SettleSame

SpecRerun == Init /\ [][NextRerun]_vars

(* ------------------------------------------------ bodies left running -- *)
\* Promise.race does not cancel the loser: a body that lost the race to its
\* timer goes on and settles later, on its own; the race has settled
\* already, so nothing of the runner observes it.
runnerVars == <<results, status, runIdx, rstack, tf, pending, log, returned, behaviour>>

\* A runner in which the loser of a race decides the test once more.
loserSettledDecides(r, which, b) ==
  [r EXCEPT ![which] = @ \ {b}, !.results.failed = @ + 1, !.results.total = @ + 1]

\* The loser of a race settles: the promise of the race is settled already,
\* so resolving or rejecting it once more does nothing.
loserSettled(r, which, b) == [r EXCEPT ![which] = @ \ {b}]

LateBodySettles ==
  /\ \E b \in late : Becomes(loserSettled(Now, "late", b), tf.body)
  /\ UNCHANGED regVars

\* setTimeout(() => reject(new Error(...)), timeout) of a race the body won
LateTimerFires ==
  /\ \E b \in timers : Becomes(loserSettled(Now, "timers", b), tf.body)
  /\ UNCHANGED regVars

NextLate == RegisterSmall \/ Run \/ LateBodySettles \/ LateTimerFires

SpecLate == Init /\ [][NextLate]_vars

(* ----------------------------------------------------------------- Expect *)
(* The assertion library.  A third specification: an Expect object is made *)
(* for a value, and its matchers are called, plain and negated, with an    *)
(* argument.  Matchers, deepEqual and strictEqual are pure functions of    *)
(* JavaScript values.                                                      *)
JsNull == Val("null", "")

Num(v) == Val("number", v)

Str(v) == Val("string", v)

\* A function that, when called, returns ("returns"), throws null ("null") or
\* throws new Error(v).
Fun(ref, v) == [t |-> "function", v |-> v, ctor |-> "Function", ref |-> ref, props |-> <<>>]

\* new ctor() with the properties set in this order ({...} for Object).
Obj(ctor, ref, props) == [t |-> "object", v |-> "", ctor |-> ctor, ref |-> ref, props |-> props]

\* [items]: the own keys of an array are its indices.
Arr(ref, items) ==
  [t |-> "array", v |-> "", ctor |-> "Array", ref |-> ref,
   props |-> [i \in 1..Len(items) |-> <<ToString(i - 1), items[i]>>]]

\* The values an expectation is made about; ref is the identity given to the
\* objects (objects nested in them get another one).
Values(ref) ==
  {Undefined, JsNull, Num("1"), Num("2"), Num("NaN"), Str("oo"), Str("bang"),
   Obj("Object", ref, <<>>),
   Obj("Object", ref, <<<<"a", Num("1")>>>>),
   Obj("Object", ref, <<<<"a", Undefined>>>>),
   Obj("Object", ref, <<<<"b", Undefined>>>>),
   Obj("Object", ref, <<<<"a", Num("1")>>, <<"b", Num("2")>>>>),
   Obj("Object", ref, <<<<"b", Num("2")>>, <<"a", Num("1")>>>>),
   Obj("A", ref, <<<<"a", Num("1")>>>>),
   Obj("B", ref, <<<<"a", Num("1")>>>>),
   Arr(ref, <<Num("1")>>),
   Obj("Object", ref, <<<<"0", Num("1")>>>>),
   Obj("Object", ref, <<<<"x", Obj("A", ref + 10, <<<<"a", Num("1")>>>>)>>>>),
   Obj("Object", ref, <<<<"x", Obj("B", ref + 10, <<<<"a", Num("1")>>>>)>>>>),
   Obj("Object", ref, <<<<"x", Arr(ref + 10, <<Num("1")>>)>>>>),
   Obj("Object", ref, <<<<"x", Obj("Object", ref + 10, <<<<"0", Num("1")>>>>)>>>>),
   Fun(ref, "returns"), Fun(ref, "boom"), Fun(ref, "null")}

\* The property names toHaveProperty is called with.
Keys == {"a", "b"}

\* typeof x
typeOf(x) == IF x.t \in {"null", "array"} THEN "object" ELSE x.t

isObject(x) == x.t \in {"object", "array", "function"}

\* a === b
same(a, b) ==
  IF a.t # b.t THEN FALSE
  ELSE IF isObject(a) THEN a.ref = b.ref
  ELSE IF a.t = "number" THEN a.v = b.v /\ a.v # "NaN"
  ELSE a.v = b.v

\* Object.is(a, b)
ObjectIs(a, b) ==
  IF a.t # b.t THEN FALSE
  ELSE IF isObject(a) THEN a.ref = b.ref
  ELSE a.v = b.v

\* Boolean(x)
truthy(x) ==
  CASE x.t \in {"undefined", "null"} -> FALSE
    [] x.t = "number" -> x.v \notin {"0", "NaN"}
    [] x.t = "string" -> x.v # ""
    [] OTHER -> TRUE

\* Object.prototype.hasOwnProperty.call(x, key), for the keys of Keys
hasOwn(x, key) == \E i \in 1..Len(x.props) : x.props[i][1] = key

\* x[key]
Get(x, key) ==
  IF hasOwn(x, key)
    THEN x.props[CHOOSE i \in 1..Len(x.props) : x.props[i][1] = key][2]
    ELSE Undefined

\* deepEqual(a, b)
RECURSIVE deepEqual(_, _)
deepEqual(a, b) ==
  IF same(a, b) THEN TRUE
  ELSE IF a.t \in {"null", "undefined"} \/ b.t \in {"null", "undefined"} THEN FALSE
  ELSE IF typeOf(a) # typeOf(b) THEN FALSE
  ELSE IF typeOf(a) # "object" THEN same(a, b)
  ELSE IF a.t = "array" /\ b.t = "array" THEN
    /\ Len(a.props) = Len(b.props)
    /\ \A i \in 1..Len(a.props) : deepEqual(a.props[i][2], b.props[i][2])
  ELSE IF (a.t = "array") # (b.t = "array") THEN FALSE
  ELSE
    \* keysA.length !== keysB.length; keysA.every((key) => deepEqual(a[key], b[key]))
    /\ Len(a.props) = Len(b.props)
    /\ \A i \in 1..Len(a.props) :
         deepEqual(a.props[i][2], Get(b, a.props[i][1]))

\* strictEqual(a, b): "true", "false", or the TypeError of reading
\* .constructor of null.
strictEqual(a, b) ==
  IF same(a, b) THEN "true"
  ELSE IF typeOf(a) # typeOf(b) THEN "false"
  ELSE IF typeOf(a) # "object" THEN "false"
  ELSE IF (a.t = "array") # (b.t = "array") THEN "false"
  ELSE IF a.t = "null" \/ b.t = "null" THEN "TypeError"
  ELSE IF a.ctor # b.ctor THEN "false"
  ELSE IF deepEqual(a, b) THEN "true" ELSE "false"

\* if (passed === this.isNot) { throw new Error(...) }
raise(passed, not) == IF passed = not THEN "throw" ELSE "return"

\* A variant of toBe that ignores the negation flag.
toBeNoNegation(a, not, e) == raise(ObjectIs(a, e), FALSE)

\* toBe(expected): const passed = Object.is(this.actual, expected)
toBe(a, not, e) == raise(ObjectIs(a, e), not)

\* toEqual(expected): const passed = this.deepEqual(this.actual, expected)
toEqual(a, not, e) == raise(deepEqual(a, e), not)

\* toStrictEqual(expected): const passed = this.strictEqual(this.actual, expected)
toStrictEqual(a, not, e) ==
  IF strictEqual(a, e) = "TypeError" THEN "TypeError"
  ELSE raise(strictEqual(a, e) = "true", not)

\* toHaveProperty(property, value); hasOwnProperty.call(null or undefined, ...)
\* is a TypeError.
toHaveProperty(a, not, property, value) ==
  IF a.t \in {"null", "undefined"} THEN "TypeError"
  ELSE IF ~hasOwn(a, property) /\ ~not THEN "throw"
  ELSE IF hasOwn(a, property) /\ not THEN "throw"
  ELSE IF value.t # "undefined" /\ hasOwn(a, property)
    THEN raise(deepEqual(Get(a, property), value), not)
  ELSE "return"

\* The characters of the strings of the model.
text(v) ==
  CASE v = "boom" -> <<"b", "o", "o", "m">>
    [] v = "bang" -> <<"b", "a", "n", "g">>
    [] v = "oo" -> <<"o", "o">>
    [] OTHER -> <<>>

\* s.includes(part)
includes(s, part) ==
  \E i \in 0..(Len(s) - Len(part)) : SubSeq(s, i + 1, i + Len(part)) = part

\* toThrow(expectedError), for an expectedError that is not a RegExp; reading
\* error.message of a thrown null is a TypeError.
toThrow(a, not, expectedError) ==
  IF typeOf(a) # "function" THEN "throw"
  ELSE IF (a.v # "returns") = not THEN "throw"
  ELSE IF a.v # "returns" /\ truthy(expectedError) /\ expectedError.t = "string" THEN
    IF a.v = "null" THEN "TypeError"
    ELSE IF ~includes(text(a.v), text(expectedError.v)) THEN "throw"
    ELSE "return"
  ELSE "return"

engineVars ==
  <<suites, currentSuite, heap, stack, lastCall, results, status, runIdx, rstack,
    tf, pending, log, returned, behaviour, late, timers>>

\* get not() { this.isNot = !this.isNot; return this }
Not ==
  /\ isNot' = ~isNot
  /\ UNCHANGED <<actual, expected, verdicts, engineVars>>

\* A matcher is called on the Expect object and returns or raises; what it
\* did is noted next to what the same matcher did with the other polarity.
Matcher(name, property, did) ==
  /\ verdicts' =
       LET seen == IF verdicts.matcher = name /\ verdicts.property = property
                     THEN verdicts
                     ELSE [NoVerdicts EXCEPT !.matcher = name, !.property = property]
       IN IF isNot THEN [seen EXCEPT !.negated = did] ELSE [seen EXCEPT !.plain = did]
  /\ UNCHANGED <<actual, isNot, expected, engineVars>>

ToBe == Matcher("toBe", "", toBe(actual, isNot, expected))

ToEqual == Matcher("toEqual", "", toEqual(actual, isNot, expected))

ToStrictEqual == Matcher("toStrictEqual", "", toStrictEqual(actual, isNot, expected))

ToHaveProperty ==
  \E property \in Keys :
    Matcher("toHaveProperty", property, toHaveProperty(actual, isNot, property, expected))

ToThrow == Matcher("toThrow", "", toThrow(actual, isNot, expected))

\* expect(actual): this.actual = actual; this.isNot = false.  The argument is
\* any value, or the actual value itself.
InitExpect ==
  /\ Constructed
  /\ \E a \in Values(1) : \E e \in Values(2) \cup {a} :
       /\ actual = a
       /\ expected = e
  /\ isNot = FALSE
  /\ verdicts = NoVerdicts

NextExpect == Not \/ ToBe \/ ToEqual \/ ToStrictEqual \/ ToHaveProperty \/ ToThrow

SpecExpect == InitExpect /\ [][NextExpect]_vars

(* ================================================================ claims *)
TestCall == It \/ Test \/ Skip \/ Only
HookCall == BeforeEach \/ AfterEach \/ BeforeAll \/ AfterAll

\* The suites of the tree: those reachable from this.suites.
RECURSIVE Under(_)
Under(id) ==
  {id} \cup UNION {Under(heap[id].nested[k]) : k \in 1..Len(heap[id].nested)}

Tree == UNION {Under(suites[k]) : k \in 1..Len(suites)}

TestsOf(id) == 1..Len(heap[id].tests)

\* C1: when run() has resolved, and whenever the runner is suspended on a hook
\* or on a test body, total = passed + failed + skipped.
C1_TotalIsSum ==
  (status = "resolved" \/ pending # "none") =>
    results.total = results.passed + results.failed + results.skipped

\* A resolved run that counted a passed, a skipped and a timed-out test.
C1_Witness ==
  /\ status = "resolved"
  /\ results.passed = 1 /\ results.skipped = 1 /\ results.failed = 1
  /\ \E k \in 1..Len(results.suites) :
       \E j \in 1..Len(results.suites[k].tests) :
         results.suites[k].tests[j].error = "Timeout"

\* What the run has recorded for a suite: the suiteResults of the runSuite
\* calls in progress, with the number of direct tests they are past, and the
\* SuiteResults pushed to the report.
Visited ==
  {[suite |-> rstack[k].suite, sr |-> rstack[k].suiteResults,
    n |-> IF rstack[k].pc = "beforeAll" THEN 0
          ELSE IF rstack[k].pc = "tests" THEN rstack[k].i - 1
          ELSE Len(heap[rstack[k].suite].tests)] : k \in 1..Len(rstack)}
  \cup
  {[suite |-> results.suites[k].name, sr |-> results.suites[k],
    n |-> Len(heap[results.suites[k].name].tests)] : k \in 1..Len(results.suites)}

Counted(sr) == sr.passed + sr.failed + sr.skipped

RECURSIVE SumCounted(_)
SumCounted(seq) ==
  IF seq = <<>> THEN 0 ELSE Counted(Head(seq)) + SumCounted(Tail(seq))

Names(sr) == {sr.tests[j].name : j \in 1..Len(sr.tests)}

Ended == status \in {"resolved", "rejected"}

Called(kind, id, i, t) ==
  \E j \in 1..Len(log) : log[j] = [kind |-> kind, suite |-> id, i |-> i, test |-> t]

\* Some direct test of the suite is marked only; a direct test left out by it.
Focused(id) == \E k \in TestsOf(id) : heap[id].tests[k].only
Excluded(id, k) == Focused(id) /\ ~heap[id].tests[k].only

\* C2: a direct test without only, in a suite that has a direct test with
\* only, is never the subject of a hook or body invocation and is counted
\* nowhere; in every suite the tests the runner is past, less those, are all
\* counted (so a suite without only-marked tests loses none), the ones not
\* marked skip have a RunResult, and total is the sum of these counts.
C2_FocusPerSuite ==
  /\ \A j \in 1..Len(log) :
       log[j].test # 0 => ~Excluded(log[j].suite, log[j].test)
  /\ \A v \in Visited :
       LET kept == {k \in 1..v.n : ~Excluded(v.suite, k)} IN
         /\ Counted(v.sr) = Cardinality(kept)
         /\ Names(v.sr) = {<<v.suite, k>> : k \in {x \in kept : ~heap[v.suite].tests[x].skip}}
  /\ results.total =
       SumCounted(results.suites)
       + SumCounted([k \in 1..Len(rstack) |-> rstack[k].suiteResults])

\* A resolved run over two suites: in one, a test marked only ran and a test
\* without only was left out; the test of the other one, which has no test
\* marked only, ran.
C2_Witness ==
  /\ status = "resolved"
  /\ \E a \in Tree : \E b \in Tree \ {a} :
       /\ Focused(a) /\ \E k \in TestsOf(a) : Excluded(a, k)
       /\ ~Focused(b) /\ heap[b].tests # <<>>
  /\ results.total = 2 /\ results.skipped = 0

RECURSIVE SumSkipped(_)
SumSkipped(seq) ==
  IF seq = <<>> THEN 0 ELSE Head(seq).skipped + SumSkipped(Tail(seq))

\* C3: no hook or body is ever invoked for a test marked skip and only; in
\* every suite, each such test the runner is past is counted as skipped and
\* has no RunResult (the skipped count of the suite is the number of tests
\* marked skip that focus does not leave out); the global skipped count is the
\* sum of the suites' and is part of total.
C3_SkipBeatsOnly ==
  /\ \A j \in 1..Len(log) :
       log[j].test # 0 =>
         ~(heap[log[j].suite].tests[log[j].test].skip
           /\ heap[log[j].suite].tests[log[j].test].only)
  /\ \A v \in Visited :
       /\ v.sr.skipped =
            Cardinality({k \in 1..v.n : heap[v.suite].tests[k].skip /\ ~Excluded(v.suite, k)})
       /\ \A k \in 1..v.n :
            (heap[v.suite].tests[k].skip /\ heap[v.suite].tests[k].only) =>
              <<v.suite, k>> \notin Names(v.sr)
  /\ results.skipped =
       SumSkipped(results.suites)
       + SumSkipped([k \in 1..Len(rstack) |-> rstack[k].suiteResults])
  /\ results.total - results.passed - results.failed = results.skipped

\* A resolved run of a suite holding a test marked skip and only, counted as
\* skipped, and a test marked only, which ran.
C3_Witness ==
  /\ status = "resolved"
  /\ \E a \in Tree : \E k \in TestsOf(a) :
       heap[a].tests[k].skip /\ heap[a].tests[k].only
  /\ results.skipped = 1 /\ results.total = 2 /\ log # <<>>

\* C4, as claimed: once the run is over, every suite whose N direct tests are
\* marked neither skip nor only, and for one of whose tests a hook or the body
\* was invoked, has one RunResult per test, in declaration order, with
\* passed + failed = N and skipped = 0.
C4_RunsEveryTest ==
  Ended =>
    \A v \in Visited :
      (/\ \A k \in TestsOf(v.suite) :
            ~heap[v.suite].tests[k].skip /\ ~heap[v.suite].tests[k].only
       /\ \E j \in 1..Len(log) : log[j].suite = v.suite /\ log[j].test # 0) =>
        /\ Len(v.sr.tests) = Len(heap[v.suite].tests)
        /\ \A k \in 1..Len(v.sr.tests) : v.sr.tests[k].name = <<v.suite, k>>
        /\ v.sr.passed + v.sr.failed = Len(heap[v.suite].tests)
        /\ v.sr.skipped = 0

\* The runner is suspended on the body of a test.
OnBody == Running /\ pending = "race"

\* The RunResult of test k of the suite: the one runTest is about to return,
\* or the one runSuite recorded.
ResultsFor(id, k) ==
  {tf.result : x \in {y \in {1} : tf.pc = "afterEach" /\ top.suite = id /\ top.i = k}}
  \cup
  UNION {{v.sr.tests[j] : j \in {x \in 1..Len(v.sr.tests) : v.sr.tests[x].name = <<id, k>>}}
           : v \in Visited}

\* C5, as claimed: when the race settles for a test whose body ran longer than
\* its timeout, counting the synchronous part, the test has a failed RunResult
\* with the timeout error.
C5_LongBodyTimesOut ==
  [][OnBody =>
       \A id \in {top.suite} : \A k \in {top.i} :
         tf.body.sync + tf.body.wait > heap[id].tests[k].timeout =>
           /\ ResultsFor(id, k)' # {}
           /\ \A r \in ResultsFor(id, k)' : ~r.passed /\ r.error = "Timeout"]_vars

\* C5, amended: when the race settles for a test whose body has not settled
\* when the timer fires, the timer running from the return of test.fn(), the
\* test has a failed RunResult with the timeout error, and when runSuite
\* records it in that step it counts one more failed test; a body that settles
\* before the timer fires, however long its synchronous part ran, is never
\* failed by the timeout.
C5_UnsettledBodyTimesOut ==
  [][OnBody =>
       \A id \in {top.suite} : \A k \in {top.i} :
         /\ ResultsFor(id, k)' # {}
         /\ tf.body.wait > heap[id].tests[k].timeout =>
              /\ \A r \in ResultsFor(id, k)' : ~r.passed /\ r.error = "Timeout"
              /\ tf'.pc # "afterEach" =>
                   /\ results'.failed = results.failed + 1
                   /\ results'.passed = results.passed
         /\ tf.body.wait < heap[id].tests[k].timeout =>
              \A r \in ResultsFor(id, k)' : r.error # "Timeout"]_vars

\* A test whose body was still pending when the timer fired has been counted
\* as failed, with the timeout error.
C5_Witness ==
  /\ results.failed = 1
  /\ \E v \in Visited : \E j \in 1..Len(v.sr.tests) :
       v.sr.tests[j].error = "Timeout" /\ ~v.sr.tests[j].passed

\* The tests of a suite that the runner runs: not left out, not skipped.
Runs(id) == {k \in TestsOf(id) : ~Excluded(id, k) /\ ~heap[id].tests[k].skip}

\* A beforeEach hook raised for test k of the suite: hooks were invoked for
\* it, the run is over, and the body was not.
BeforeEachRaised(id, k) ==
  /\ \E i \in 1..Len(heap[id].beforeEach) : Called("beforeEach", id, i, k)
  /\ ~Called("body", id, k, k)

\* C6, as claimed: once the run is over, a test for which a beforeEach hook
\* raised has a failed RunResult carrying the raised value, and every
\* afterEach hook of its suite was invoked for it.
C6_BeforeEachRaises ==
  Ended =>
    \A id \in Tree : \A k \in TestsOf(id) :
      BeforeEachRaised(id, k) =>
        /\ \E v \in Visited : \E j \in 1..Len(v.sr.tests) :
             /\ v.sr.tests[j].name = <<id, k>>
             /\ ~v.sr.tests[j].passed
             /\ v.sr.tests[j].error \in {"Error", "null"}
        /\ \A i \in 1..Len(heap[id].afterEach) : Called("afterEach", id, i, k)

\* C7, as claimed: once the run is over it has resolved, and every hook the
\* failure-free run invokes was invoked: the beforeAll and afterAll hooks of
\* every suite of the tree, and every beforeEach and afterEach hook of its
\* suite for every test that runs.
C7_BestEffortIsolation ==
  Ended =>
    /\ status = "resolved"
    /\ \A id \in Tree :
         /\ \A i \in 1..Len(heap[id].beforeAll) : Called("beforeAll", id, i, 0)
         /\ \A i \in 1..Len(heap[id].afterAll) : Called("afterAll", id, i, 0)
         /\ \A k \in Runs(id) :
              /\ \A i \in 1..Len(heap[id].beforeEach) : Called("beforeEach", id, i, k)
              /\ \A i \in 1..Len(heap[id].afterEach) : Called("afterEach", id, i, k)

\* C8: it, test, skip or only called while no suite is current raises and
\* leaves this.suites, every suite object and the current suite as they were.
C8_TestOutsideSuite ==
  [][(Registering /\ currentSuite = Null /\ lastCall'.op = "it" /\ TestCall) =>
       /\ lastCall'.threw /\ lastCall'.op = "it"
       /\ UNCHANGED <<suites, heap, currentSuite, stack>>]_vars

\* A test was registered outside any suite, with suites already in the tree.
C8_Witness ==
  /\ lastCall.op = "it" /\ lastCall.threw
  /\ currentSuite = Null /\ suites # <<>>

\* C9, as claimed: a hook registered while no suite is current raises.
C9_HookOutsideSuiteRaises ==
  (lastCall.op \in HookKinds /\ currentSuite = Null) => lastCall.threw

\* C9, amended: a hook registered while no suite is current is ignored: the
\* call raises nothing and registers nothing.
C9_HookOutsideSuiteIgnored ==
  [][(Registering /\ currentSuite = Null /\ lastCall'.op \in HookKinds /\ HookCall) =>
       /\ ~lastCall'.threw /\ lastCall'.op \in HookKinds
       /\ UNCHANGED <<suites, heap, currentSuite, stack>>]_vars

\* A hook was registered outside any suite, with suites already in the tree.
C9_Witness ==
  /\ lastCall.op \in HookKinds /\ ~lastCall.threw
  /\ currentSuite = Null /\ suites # <<>>

\* C10: the current suite is the suite of the innermost describe call in
\* progress (Null when there is none), and every call in progress saved the
\* suite of the call around it: whether a describe call returned or its body
\* raised, the suite that was current before the call is current again.
C10_ContextRestored ==
  /\ currentSuite = IF stack = <<>> THEN Null ELSE stack[Len(stack)].suite
  /\ \A k \in 1..Len(stack) :
       stack[k].previousSuite = IF k = 1 THEN Null ELSE stack[k - 1].suite

\* The body of a describe nested two deep raised; the describe around it,
\* which holds a test, is current again.
C10_Witness ==
  /\ lastCall.op = "describe" /\ lastCall.threw
  /\ Len(stack) = 2 /\ currentSuite = stack[2].suite
  /\ heap[currentSuite].tests # <<>>

\* C11, as claimed: on a tree whose callables behave the same on every
\* invocation, the report the second run() resolves with has the counts and
\* the number of suite results of the report the first run() resolved with,
\* and the first report (the object this.results) still has them.  (Stated
\* for the trees in which the first run counted a test.)
C11_RerunFreshReport ==
  (status = "resolved" /\ Len(returned) = 2 /\ returned[1].total > 0) =>
    /\ returned[2] = returned[1]
    /\ report(results) = returned[1]

\* The last matcher was called both plain and negated, on the same values.
Both(name) ==
  /\ verdicts.matcher = name
  /\ verdicts.plain # "none" /\ verdicts.negated # "none"

\* C12: for all x and y, expect(x).not.toBe(y) returns exactly when
\* expect(x).toBe(y) raises, and raises exactly when it returns.
C12_NotToBe ==
  Both("toBe") =>
    /\ verdicts.plain \in {"return", "throw"}
    /\ verdicts.negated \in {"return", "throw"}
    /\ verdicts.negated = "return" <=> verdicts.plain = "throw"

\* toBe and not.toBe were called for two distinct objects that are deep-equal:
\* toBe raised and not.toBe returned.
C12_Witness ==
  /\ Both("toBe")
  /\ actual.t = "object" /\ actual.ref # expected.ref /\ deepEqual(actual, expected)
  /\ verdicts.plain = "throw" /\ verdicts.negated = "return"

\* C13, as claimed: the negated form of a matcher returns exactly when the
\* plain form raises (stated for calls that end without a TypeError, and for
\* toThrow on a function).
C13_UniformNegation ==
  (/\ verdicts.plain \in {"return", "throw"}
   /\ verdicts.negated \in {"return", "throw"}
   /\ verdicts.matcher = "toThrow" => actual.t = "function") =>
    (verdicts.negated = "return" <=> verdicts.plain = "throw")

\* Object.keys(x), as a set
KeySet(x) == {x.props[i][1] : i \in 1..Len(x.props)}

\* C14, as claimed: toEqual on two mappings returns exactly when they have the
\* same set of own keys and deep-equal values under each key.
C14_DeepEqualMappings ==
  (/\ verdicts.matcher = "toEqual" /\ verdicts.plain # "none"
   /\ actual.t = "object" /\ expected.t = "object") =>
    (verdicts.plain = "return" <=>
       /\ KeySet(actual) = KeySet(expected)
       /\ \A k \in KeySet(actual) : deepEqual(Get(actual, k), Get(expected, k)))

\* The two values have the same constructor and container kind, at every
\* level of nesting.
RECURSIVE sameKinds(_, _)
sameKinds(a, b) ==
  IF ~isObject(a) \/ ~isObject(b) THEN isObject(a) = isObject(b)
  ELSE /\ a.ctor = b.ctor
       /\ (a.t = "array") = (b.t = "array")
       /\ \A k \in KeySet(a) \cap KeySet(b) : sameKinds(Get(a, k), Get(b, k))

\* C15, as claimed: toStrictEqual returns only for values that are deep-equal
\* and have the same constructor and container kind at every level.
C15_StrictEveryLevel ==
  (verdicts.matcher = "toStrictEqual" /\ verdicts.plain = "return") =>
    (deepEqual(actual, expected) /\ sameKinds(actual, expected))

\* The invocations of a failure-free run, in the order of runSuite and runTest.
HookWalk(kind, id, t) ==
  [j \in 1..Len(heap[id][kind]) |-> [kind |-> kind, suite |-> id, i |-> j, test |-> t]]

WalkTest(id, k) ==
  HookWalk("beforeEach", id, k)
  \o <<[kind |-> "body", suite |-> id, i |-> k, test |-> k]>>
  \o HookWalk("afterEach", id, k)

RECURSIVE WalkTests(_, _)
WalkTests(id, k) ==
  IF k > Len(heap[id].tests) THEN <<>>
  ELSE (IF k \in Runs(id) THEN WalkTest(id, k) ELSE <<>>) \o WalkTests(id, k + 1)

RECURSIVE WalkSuite(_)
RECURSIVE WalkSuites(_)
WalkSuite(id) ==
  HookWalk("beforeAll", id, 0) \o WalkTests(id, 1)
  \o WalkSuites(heap[id].nested) \o HookWalk("afterAll", id, 0)

WalkSuites(ids) ==
  IF ids = <<>> THEN <<>> ELSE WalkSuite(Head(ids)) \o WalkSuites(Tail(ids))

Walk == WalkSuites(suites)

\* s is t with some entries left out, the order kept.
RECURSIVE IsSubseq(_, _)
IsSubseq(s, t) ==
  IF s = <<>> THEN TRUE
  ELSE IF t = <<>> THEN FALSE
  ELSE IF Head(s) = Head(t) THEN IsSubseq(Tail(s), Tail(t))
  ELSE IsSubseq(s, Tail(t))

\* The entries of a sequence of invocations that are for test k of the suite.
RECURSIVE For(_, _, _)
For(seq, id, k) ==
  IF seq = <<>> THEN <<>>
  ELSE IF Head(seq).suite = id /\ Head(seq).test = k
    THEN <<Head(seq)>> \o For(Tail(seq), id, k)
  ELSE For(Tail(seq), id, k)

\* The invocations no failure of a callable can prevent in a run that
\* resolves: the beforeAll, afterAll and afterEach hooks, and the first
\* invocation made for each test.
RECURSIVE Certain(_)
Certain(seq) ==
  IF seq = <<>> THEN <<>>
  ELSE IF \/ Head(seq).kind \in {"beforeAll", "afterAll", "afterEach"}
          \/ Head(seq) = Head(WalkTest(Head(seq).suite, Head(seq).test))
    THEN <<Head(seq)>> \o Certain(Tail(seq))
  ELSE Certain(Tail(seq))

\* The log is in the order of the walk, and complete where nothing raised.
InWalkOrder ==
  Registering \/ \A walk \in {Walk} :
    /\ IsSubseq(log, walk)
    /\ status = "resolved" =>
         /\ Certain(log) = Certain(walk)
         /\ (\A j \in 1..Len(walk) : walk[j].kind = "body" =>
               \E m \in 1..Len(log) : log[m] = walk[j]) => log = walk

\* C16: the invocations made so far are, in this order, invocations of the one
\* walk of the tree (per node: beforeAll hooks, direct tests, each child suite
\* completely, afterAll hooks; all in declaration order); a run that resolves
\* has made every invocation of that walk which no failure can prevent, and
\* the whole walk if no beforeEach hook kept a body from being invoked.
C16_FixedOrder == []InWalkOrder

\* A resolved run of a suite with a test, a child suite with a test, and an
\* afterAll hook: the three invocations were made in the order of the walk.
C16_Witness ==
  /\ status = "resolved"
  /\ \E a \in Tree :
       /\ heap[a].tests # <<>> /\ heap[a].afterAll # <<>>
       /\ heap[a].nested # <<>> /\ heap[heap[a].nested[1]].tests # <<>>
       /\ log = <<[kind |-> "body", suite |-> a, i |-> 1, test |-> 1],
                  [kind |-> "body", suite |-> heap[a].nested[1], i |-> 1, test |-> 1],
                  [kind |-> "afterAll", suite |-> a, i |-> 1, test |-> 0]>>

\* Test k of the suite has a result in the suiteResults of some runSuite.
Recorded(id, k) ==
  \E v \in Visited : v.suite = id /\ heap[id].tests[k].name \in Names(v.sr)

\* The entries for one test, for, are next to each other in the log.
Together(for) ==
  for = <<>> \/ \E m \in 1..Len(log) : SubSeq(log, m, m + Len(for) - 1) = for

\* Every test has been given its own suite's hooks, and those alone.
OwnHooksOnly ==
  Registering \/
    /\ (Running /\ pending = "hook" /\ tf.pc \in {"beforeEach", "afterEach"}) =>
         /\ log[Len(log)].kind = tf.pc
         /\ log[Len(log)].suite = top.suite
         /\ log[Len(log)].test = top.i
    /\ \A j \in 1..Len(log) : log[j].kind \in {"beforeEach", "afterEach", "body"} =>
         \A id \in {log[j].suite} : \A k \in {log[j].test} :
           /\ id \in 1..Len(heap) /\ k \in TestsOf(id)
           \* at the first invocation for a test: all of them, to the end of the log
           /\ (j = 1 \/ log[j - 1].suite # id \/ log[j - 1].test # k) =>
                \A for \in {For(SubSeq(log, j, Len(log)), id, k)} :
                  \A walk \in {WalkTest(id, k)} :
                    /\ IsSubseq(for, walk)
                    /\ SubSeq(log, j, j + Len(for) - 1) = for
                    /\ (\E m \in 1..Len(for) : for[m].kind = "body") =>
                         /\ \A i \in 1..Len(heap[id].beforeEach) : for[i] = walk[i]
                         /\ Recorded(id, k) => for = walk

hookReturned(r) ==
  IF r.tf.pc = "afterEach" THEN afterEachSettled(r, "return")
  ELSE allHookSettled(r, "return")

\* C18: a beforeAll, afterAll or afterEach hook that raises leaves the run
\* where the same hook returning would have left it: the same next
\* invocation, the same results of the tests, the same counters, and run()
\* not rejected.  (Tests whose own failure is still pending, C19, are left
\* out.)
C18_HookFailureCaught ==
  [][(Running /\ pending = "hook" /\ tf.pc # "beforeEach" /\ ~tf.crashed) =>
       \E n \in {advance(hookReturned(Now))} :
         /\ status' = n.status
         /\ results' = n.results
         /\ rstack' = n.rstack
         /\ log' = n.log
         /\ tf'.pc = n.tf.pc /\ tf'.result = n.tf.result]_vars

\* C19: whatever a beforeEach hook or a test body throws, and when the timer
\* wins the race, the catch block of runTest completes: no exception is left
\* pending in runTest and run() does not reject.
C19_AnyThrownValueCaught ==
  [][(Running /\ tf.pc \in {"beforeEach", "race"}) =>
       (status' # "rejected" /\ ~tf'.crashed)]_vars

\* The result of runTest for a test, recorded or (in the afterEach hooks,
\* also of a run that rejected there) still to be returned, is the timeout
\* failure.
TimedOut(id, k) ==
  \/ /\ status \in {"running", "rejected"} /\ rstack # <<>> /\ tf.pc = "afterEach"
     /\ top.suite = id /\ top.i = k
     /\ ~tf.result.passed /\ tf.result.error = "Timeout"
  \/ \E v \in Visited : v.suite = id /\
       \E j \in 1..Len(v.sr.tests) :
         /\ v.sr.tests[j].name = heap[id].tests[k].name
         /\ ~v.sr.tests[j].passed /\ v.sr.tests[j].error = "Timeout"

\* C20 (as stated): while the runner is in the beforeEach hooks or in the
\* body of a test, no body of an earlier test is still running.
C20_NoTestDuringEarlierBody ==
  (Running /\ pending # "none" /\ tf.pc \in {"beforeEach", "race"}) => late = {}

\* C20 (amended): the runner awaits one callable at a time and finishes the
\* beforeEach hooks, the race and the afterEach hooks of a test before it
\* invokes anything for the next, so the invocations made for two tests are
\* never interleaved; the only code of an earlier test that still runs then
\* is a body that lost the race to its timer, and that test has the timeout
\* failure as its result.
C20_OnlyAbandonedBodiesOverlap ==
  /\ \A b \in late : TimedOut(b.suite, b.test)
  /\ Registering \/ \A id \in Tree : \A k \in TestsOf(id) : Together(For(log, id, k))
  /\ (Running /\ pending # "none" /\ tf.pc # "none") =>
       /\ log[Len(log)].suite = top.suite /\ log[Len(log)].test = top.i
       /\ [suite |-> top.suite, test |-> top.i] \in late => tf.pc = "afterEach"

\* The body of the second test of a suite has been invoked while the body of
\* the first, failed by its timeout, is still running.
C20_Witness ==
  /\ Running /\ pending = "race"
  /\ top.i = 2
  /\ late = {[suite |-> top.suite, test |-> 1]}
  /\ TimedOut(top.suite, 1)

\* Exactly one of the two values is null and the other is an object.
NullAgainstObject ==
  \/ actual.t = "null" /\ expected.t \in {"object", "array"}
  \/ expected.t = "null" /\ actual.t \in {"object", "array"}

\* C21: with exactly one of the two values null and the other an object,
\* toStrictEqual raises the assertion failure and not.toStrictEqual returns.
C21_NullStrictByIdentity ==
  (verdicts.matcher = "toStrictEqual" /\ NullAgainstObject) =>
    /\ verdicts.plain \in {"none", "throw"}
    /\ verdicts.negated \in {"none", "return"}

\* Every RunResult that runSuite has recorded so far.
AllResults ==
  UNION {{v.sr.tests[j] : j \in 1..Len(v.sr.tests)} : v \in Visited}

RECURSIVE PostOrder(_)
PostOrder(ids) ==
  IF ids = <<>> THEN <<>>
  ELSE PostOrder(heap[Head(ids)].nested) \o <<Head(ids)>> \o PostOrder(Tail(ids))

\* The sum of one counter over a sequence of suite results.
RECURSIVE SumOf(_, _)
SumOf(seq, counter) ==
  IF seq = <<>> THEN 0 ELSE Head(seq)[counter] + SumOf(Tail(seq), counter)

\* C23: when run() has resolved, the report's suites list holds one
\* SuiteResult per suite of the tree, a child's before its parent's
\* (post-order); each holds RunResults of direct tests of its suite only, one
\* per test at most, as many as passed + failed, with passed the number of
\* those that passed and skipped the number of direct tests skipped; and the
\* sums of passed, failed and skipped over the list are the report's passed,
\* failed and skipped.
C23_ReportShape ==
  status = "resolved" => \A list \in {results.suites} :
    /\ [j \in 1..Len(list) |-> list[j].name] = PostOrder(suites)
    /\ \A j \in 1..Len(list) : \A sr \in {list[j]} :
         /\ sr.passed + sr.failed = Len(sr.tests)
         /\ \A m \in 1..Len(sr.tests) :
              /\ sr.tests[m].name[1] = sr.name
              /\ sr.tests[m].name[2] \in TestsOf(sr.name)
              /\ \A n \in 1..Len(sr.tests) : sr.tests[n].name = sr.tests[m].name => n = m
         /\ sr.passed = Cardinality({m \in 1..Len(sr.tests) : sr.tests[m].passed})
         /\ sr.skipped = Cardinality({k \in TestsOf(sr.name) :
                            heap[sr.name].tests[k].skip /\ ~Excluded(sr.name, k)})
    /\ SumOf(list, "passed") = results.passed
    /\ SumOf(list, "failed") = results.failed
    /\ SumOf(list, "skipped") = results.skipped

\* A resolved run of a suite with a test that failed and a child suite with a
\* test that passed: the child's result comes first, each has its own test.
C23_Witness ==
  /\ status = "resolved"
  /\ Len(results.suites) = 2
  /\ results.suites[2].name = suites[1]
  /\ heap[suites[1]].nested = <<results.suites[1].name>>
  /\ results.suites[1].passed = 1 /\ results.suites[2].failed = 1
  /\ results.passed = 1 /\ results.failed = 1

\* The suite objects a list of roots or some suite's nested list refers to.
Attached(h, roots) ==
  {roots[k] : k \in 1..Len(roots)}
  \cup UNION {{h[j].nested[k] : k \in 1..Len(h[j].nested)} : j \in 1..Len(h)}

\* C24: a suite is attached, to its parent or to the root list, by the step
\* in which its body returns and by no other: a suite whose body is running
\* is attached nowhere.  When the body raises, the exception leaves describe
\* and the suite and every suite created inside its body are attached to
\* nothing that is left, the root list and every other suite are as they
\* were before the step; and a run invokes callables of suites of the tree
\* only.
C24_RaisedSuiteDropped ==
  [][/\ (Registering /\ lastCall'.op = "describe") =>
          \A id \in {stack[Len(stack)].suite} : \A prev \in {stack[Len(stack)].previousSuite} :
            /\ id \notin Attached(heap, suites)
            /\ \A k \in 1..Len(stack') : stack'[k].suite \notin Attached(heap', suites')
            /\ IF lastCall'.threw
                 THEN /\ suites' = suites
                      /\ \A j \in Attached(heap', suites') : j < id
                      /\ \A j \in 1..Len(heap') : j < id => heap'[j] = heap[j]
                 ELSE /\ heap' = attach(heap, prev, id)
                      /\ suites' = attachRoot(suites, prev, id)
                      /\ id \in Attached(heap', suites')
     /\ (Running /\ status' # "running") =>
          \A j \in 1..Len(log') : log'[j].suite \in Tree']_vars

\* The body of a top-level describe has raised after a suite with a test was
\* registered: that suite is the tree, and nothing else is left.
C24_Witness ==
  /\ lastCall.op = "describe" /\ lastCall.threw
  /\ stack = <<>>
  /\ suites = <<1>> /\ Len(heap) = 1
  /\ heap[1].tests # <<>>

\* C25: a run() whose hooks have all settled resolves: it is never over
\* without having resolved.  (A body needs not settle: the timer ends the
\* race.)
C25_RunResolves ==
  (pending = "none" /\ ~Registering) => status \in {"running", "resolved"}

====
